---------------------------- MODULE Spec2Model ----------------------------
(***************************************************************************)
(* Fleet transition cost model and its MILP (src/app.py,                   *)
(* run_fleet_optimization).                                                *)
(*                                                                         *)
(* Numbers are fixed-point integers.  Energies, prices and rates are drawn *)
(* from sets on which every division of the code is exact; shares, saving  *)
(* percentages and the intensity factor are percentages (0..100); the      *)
(* discount factor 1/(1.07)^k is carried in thousandths, so every          *)
(* discounted amount is in thousandths of a currency unit.                 *)
(***************************************************************************)
EXTENDS Integers, Sequences, FiniteSets, TLC

VARIABLES
    pc,              \* position in run_fleet_optimization
    fleet,           \* ship -> [Voyages, Power, Energy_per_km]
    routes_df,       \* ship -> sequence of route rows [mj, era]  (era in %)
    fuel_lu,         \* <<year, fuel>> -> fuel quote
    T_COST, T_SAVE,  \* partial: <<ship, year>> -> retrofit cost / saving %
    N_COST,          \* partial: <<ship, fuel, year>> -> newbuild capex
    new_lu,          \* ship -> [MJ_new, P_new]
    co2_prices, diesel_prices, hfo_prices,   \* year -> price
    energy_groups,   \* partial: ship -> [MJ_v, MJ_e, MJ_n, share]
    baseline_cost, retro_cost, new_cost_op,
    baseline_co2_g, retro_co2_g, new_co2_g,
    pv_base, delta_retro, delta_new,
    t, n,            \* values of the binaries Turbo[s,y], New[s,y,f]
    feasible,        \* the point held by t, n satisfies every constraint row
    status,          \* mdl.status
    objective,       \* value(mdl.objective)
    result,          \* the returned tables, or NoResult
    err              \* the status carried by the RuntimeError, or NoError

inputs == <<fleet, routes_df, fuel_lu, T_COST, T_SAVE, N_COST, new_lu,
            co2_prices, diesel_prices, hfo_prices>>
costs  == <<baseline_cost, retro_cost, new_cost_op,
            baseline_co2_g, retro_co2_g, new_co2_g>>
deltas == <<pv_base, delta_retro, delta_new>>
vars   == <<pc, inputs, energy_groups, costs, deltas, t, n, feasible, status,
            objective, result, err>>

----------------------------------------------------------------------------
(* Bounds of the model *)

NumDec   == 2     \* number of decision years (the code has 6: 2025..2050)
NumShips == 2     \* largest fleet drawn

(* Program constants *)

BaseYear   == 2025
DecStep    == 5
discount   == 7            \* percent
GramsPerTon == 1000000
LpStatusOptimal == 1
LpStatusNotSolved == 0
NoValue    == 0 - 1        \* varValue of a variable the solver did not set

BASIC  == "Diesel"
HFO    == "Hfo"
OTHERS == <<"Lpg", "Green Methanol", "Green Ammonia">>
OtherFuels == {OTHERS[i] : i \in 1..Len(OTHERS)}
LpStatuses == {1, 0, 0 - 1, 0 - 2, 0 - 3}

YEARS_DEC  == {BaseYear + DecStep * i : i \in 0..(NumDec - 1)}
YEARS_FULL == BaseYear..(BaseYear + DecStep * (NumDec - 1))
YE_REF     == YEARS_DEC

NoResult == [kind |-> "none"]
NoError  == "none"

----------------------------------------------------------------------------
(* Helpers *)

RECURSIVE SumRec(_, _)
SumRec(f, S) ==
    IF S = {} THEN 0
    ELSE LET x == CHOOSE x \in S : TRUE IN f[x] + SumRec(f, S \ {x})

(* the sum of f over S (f is bound through a singleton so that it is evaluated once) *)
SetSum(f, S) == CHOOSE r \in {SumRec(g, S) : g \in {f}} : TRUE

RECURSIVE SeqSum(_)
SeqSum(q) == IF q = <<>> THEN 0 ELSE Head(q) + SeqSum(Tail(q))

Get(d, k, default) == IF k \in DOMAIN d THEN d[k] ELSE default

Max(S) == CHOOSE x \in S : \A y \in S : y <= x

Min(S) == CHOOSE x \in S : \A y \in S : x <= y

RECURSIVE DfacK(_)
DfacK(k) == IF k = 0 THEN 1000 ELSE (DfacK(k - 1) * 100) \div (100 + discount)

dfac(y) == DfacK(y - BaseYear)

ships == DOMAIN fleet

(* the UI's expansion of the reference-year sliders to every year *)
Expand(ref) == [y \in YEARS_FULL |-> ref[Max({k \in YE_REF : k <= y})]]

Group(rows) ==
    LET tot_mj     == SeqSum([i \in 1..Len(rows) |-> rows[i].mj])
        tot_mj_eca == SeqSum([i \in 1..Len(rows) |-> (rows[i].mj * rows[i].era) \div 100])
    IN  [MJ_v  |-> tot_mj,
         MJ_e  |-> tot_mj_eca,
         MJ_n  |-> tot_mj - tot_mj_eca,
         share |-> IF tot_mj > 0 THEN (100 * tot_mj_eca) \div tot_mj ELSE 0]

grp(s) == Get(energy_groups, s, [MJ_v |-> 0, MJ_e |-> 0, MJ_n |-> 0, share |-> 0])

factor(s) ==
    IF fleet[s].Energy_per_km # 0
    THEN (100 * new_lu[s].MJ_new) \div fleet[s].Energy_per_km
    ELSE 100


----------------------------------------------------------------------------
(* Section 6: discounted annual costs and CO2 quantities per ship and year *)

Q(y, f) == fuel_lu[<<y, f>>]

(* 6.1 baseline *)
cost_eca(s, y) ==
    IF grp(s).MJ_e > 0
    THEN ((grp(s).MJ_e * fleet[s].Voyages) \div Q(y, BASIC).Energy_MJ_per_kg) * diesel_prices[y]
    ELSE 0

cost_noeca(s, y) ==
    IF grp(s).MJ_n > 0
    THEN ((grp(s).MJ_n * fleet[s].Voyages) \div Q(y, HFO).Energy_MJ_per_kg) * hfo_prices[y]
    ELSE 0

co2g(s, y) ==
    IF grp(s).MJ_v > 0
    THEN grp(s).MJ_v * fleet[s].Voyages
         * ((grp(s).share * Q(y, BASIC).CO2_g_per_MJ
             + (100 - grp(s).share) * Q(y, HFO).CO2_g_per_MJ) \div 100)
    ELSE 0

co2_amt(s, y) == (co2g(s, y) \div GramsPerTon) * co2_prices[y]

ma(s, y) ==
    IF grp(s).MJ_v > 0
    THEN (fleet[s].Power
          * (grp(s).share * Q(y, BASIC).Maintenance_USD_per_kW
             + (100 - grp(s).share) * Q(y, HFO).Maintenance_USD_per_kW)) \div 100
    ELSE fleet[s].Power * Q(y, BASIC).Maintenance_USD_per_kW

BaselineCost(s, y) ==
    (cost_eca(s, y) + cost_noeca(s, y) + co2_amt(s, y) + ma(s, y)) * dfac(y)

(* 6.2 retrofit: the saving and the capital cost are those of the table row of year y *)
save_pct(s, y) == Get(T_SAVE, <<s, y>>, 0)

MJe_r(s, y) == (grp(s).MJ_e * fleet[s].Voyages * (100 - save_pct(s, y))) \div 100
MJn_r(s, y) == (grp(s).MJ_n * fleet[s].Voyages * (100 - save_pct(s, y))) \div 100

cost_eca_r(s, y) ==
    IF MJe_r(s, y) > 0
    THEN (MJe_r(s, y) \div Q(y, BASIC).Energy_MJ_per_kg) * diesel_prices[y]
    ELSE 0

cost_noeca_r(s, y) ==
    IF MJn_r(s, y) > 0
    THEN (MJn_r(s, y) \div Q(y, HFO).Energy_MJ_per_kg) * hfo_prices[y]
    ELSE 0

co2g_r(s, y) ==
    IF grp(s).MJ_v > 0
    THEN MJe_r(s, y) * Q(y, BASIC).CO2_g_per_MJ + MJn_r(s, y) * Q(y, HFO).CO2_g_per_MJ
    ELSE 0

co2_r(s, y) == (co2g_r(s, y) \div GramsPerTon) * co2_prices[y]

ma_r(s, y) == ma(s, y)

capex_r(s, y) == Get(T_COST, <<s, y>>, 0) * dfac(y)

RetroOp(s, y) ==
    (cost_eca_r(s, y) + cost_noeca_r(s, y) + co2_r(s, y) + ma_r(s, y)) * dfac(y)

RetroCost(s, y) == RetroOp(s, y) + capex_r(s, y)

(* 6.3 newbuild: cost_eca_n is computed on the total energy MJv_n and
   cost_noeca_n on the non-ECA energy MJn_n, and both are added *)
MJv_n(s) == (grp(s).MJ_v * fleet[s].Voyages * factor(s)) \div 100
MJn_n(s) == (grp(s).MJ_n * fleet[s].Voyages * factor(s)) \div 100

cost_eca_n(s, y, f) ==
    IF MJv_n(s) > 0
    THEN (MJv_n(s) \div Q(y, f).Energy_MJ_per_kg) * Q(y, f).Price_USD_per_kg
    ELSE 0

cost_noeca_n(s, y, f) ==
    IF MJn_n(s) > 0
    THEN (MJn_n(s) \div Q(y, f).Energy_MJ_per_kg) * Q(y, f).Price_USD_per_kg
    ELSE 0

co2g_n(s, y, f) == (MJv_n(s) + MJn_n(s)) * Q(y, f).CO2_g_per_MJ

co2_n(s, y, f) == (co2g_n(s, y, f) \div GramsPerTon) * co2_prices[y]

ma_n(s, y, f) == new_lu[s].P_new * Q(y, f).Maintenance_USD_per_kW

capex_n(s, y, f) == Get(N_COST, <<s, f, y>>, 0) * dfac(y)

NewOp(s, y, f) ==
    (cost_eca_n(s, y, f) + cost_noeca_n(s, y, f) + co2_n(s, y, f) + ma_n(s, y, f)) * dfac(y)

NewCost(s, y, f) == NewOp(s, y, f) + capex_n(s, y, f)

----------------------------------------------------------------------------
(* Section 7: net present values *)

PvBase(s) == SetSum([y \in YEARS_FULL |-> baseline_cost[<<s, y>>]], YEARS_FULL)

From(y0) == {y \in YEARS_FULL : y >= y0}

DeltaRetro(s, y0) ==
    SetSum([y \in From(y0) |-> retro_cost[<<s, y>>] - baseline_cost[<<s, y>>]], From(y0))

DeltaNew(s, y0, f) ==
    SetSum([y \in From(y0) |-> new_cost_op[<<s, y, f>>] - baseline_cost[<<s, y>>]], From(y0))

----------------------------------------------------------------------------
(* Section 8: the MILP *)

TKeys == ships \X YEARS_DEC
NKeys == ships \X YEARS_DEC \X OtherFuels

(* lpSum over 0/1 variables: the number of keys in K whose variable is 1 *)
lpSum(x, K) == Cardinality({k \in K : x[k] = 1})

(* the third row summing over the years strictly before y only *)
ShipConstraintsEarlierOnly(s, tv, nv) ==
    /\ lpSum(tv, {s} \X YEARS_DEC) <= 1
    /\ lpSum(nv, {s} \X YEARS_DEC \X OtherFuels) <= 1
    /\ \A y \in YEARS_DEC :
         tv[<<s, y>>] <= 1 - lpSum(nv, {s} \X {yy \in YEARS_DEC : yy < y} \X OtherFuels)

(* the first row as an equality: every ship must retrofit *)
ShipConstraintsMustRetrofit(s, tv, nv) ==
    /\ lpSum(tv, {s} \X YEARS_DEC) = 1
    /\ lpSum(nv, {s} \X YEARS_DEC \X OtherFuels) <= 1
    /\ \A y \in YEARS_DEC :
         tv[<<s, y>>] <= 1 - lpSum(nv, {s} \X {yy \in YEARS_DEC : yy <= y} \X OtherFuels)

(* the three constraints added for ship s *)
ShipConstraints(s, tv, nv) ==
    /\ lpSum(tv, {s} \X YEARS_DEC) <= 1
    /\ lpSum(nv, {s} \X YEARS_DEC \X OtherFuels) <= 1
    /\ \A y \in YEARS_DEC :
         tv[<<s, y>>] <= 1 - lpSum(nv, {s} \X {yy \in YEARS_DEC : yy <= y} \X OtherFuels)

Constraints(tv, nv) == \A s \in ships : ShipConstraints(s, tv, nv)

ShipObjective(s, tv, nv) ==
    SetSum([y \in YEARS_DEC |-> delta_retro[<<s, y>>] * tv[<<s, y>>]], YEARS_DEC)
    + SetSum([k \in YEARS_DEC \X OtherFuels
                 |-> delta_new[<<s, k[1], k[2]>>] * nv[<<s, k[1], k[2]>>]],
             YEARS_DEC \X OtherFuels)

Objective(tv, nv) ==
    SetSum(pv_base, ships)
    + SetSum([s \in ships |-> ShipObjective(s, tv, nv)], ships)

(* a pattern is one ship's part of an assignment: <<year -> 0/1, <<year, fuel>> -> 0/1>> *)
Patterns == [YEARS_DEC -> {0, 1}] \X [YEARS_DEC \X OtherFuels -> {0, 1}]

TOf(s, p) == [k \in {s} \X YEARS_DEC |-> p[1][k[2]]]
NOf(s, p) == [k \in {s} \X YEARS_DEC \X OtherFuels |-> p[2][<<k[2], k[3]>>]]

(* the constraint rows are the same for every ship, so the feasible patterns are
   too (the outer set enumerates the filtered one, once) *)
FeasiblePatterns == {q : q \in {p \in Patterns : ShipConstraints(0, TOf(0, p), NOf(0, p))}}

PatternObjective(s, p) == ShipObjective(s, TOf(s, p), NOf(s, p))

(* mdl.solve() with status Optimal: constraints and objective are separable by
   ship, so an optimal point is an optimal feasible pattern for every ship *)
OptimalPatterns(s) ==
    LET val  == [p \in FeasiblePatterns |-> PatternObjective(s, p)]
        best == Min({val[p] : p \in FeasiblePatterns})
    IN  {p \in FeasiblePatterns : val[p] = best}

RECURSIVE Solutions(_)
Solutions(S) ==
    IF S = {} THEN {<<>>}
    ELSE LET s == CHOOSE x \in S : TRUE
         IN  {[x \in (DOMAIN f) \cup {s} |-> IF x = s THEN p ELSE f[x]] :
                 f \in Solutions(S \ {s}), p \in OptimalPatterns(s)}

----------------------------------------------------------------------------
(* Sections 9 and 10: reporting *)

NoYear == 0

Turbo_Year(s) ==
    LET hit == {y \in YEARS_DEC : t[<<s, y>>] > 0}
    IN  IF hit = {} THEN NoYear ELSE Min(hit)

chosen(s) ==
    {k \in YEARS_DEC \X (1..Len(OTHERS)) : n[<<s, k[1], OTHERS[k[2]]>>] > 0}

New_Year(s) ==
    IF chosen(s) = {} THEN NoYear ELSE Min({k[1] : k \in chosen(s)})

Fuel(s) ==
    IF chosen(s) = {} THEN "None"
    ELSE OTHERS[Min({k[2] : k \in {c \in chosen(s) : c[1] = New_Year(s)}})]

Summary == [s \in ships |-> [Turbo_Year |-> Turbo_Year(s),
                             New_Year   |-> New_Year(s),
                             Fuel       |-> Fuel(s)]]

total_baseline_co2_t ==
    SetSum([k \in ships \X YEARS_FULL |-> baseline_co2_g[k] \div GramsPerTon],
           ships \X YEARS_FULL)

OptCo2(s, y) ==
    IF New_Year(s) # NoYear /\ y >= New_Year(s)
    THEN Get(new_co2_g, <<s, y, Fuel(s)>>, 0) \div GramsPerTon
    ELSE IF Turbo_Year(s) # NoYear /\ y >= Turbo_Year(s)
    THEN Get(retro_co2_g, <<s, y>>, 0) \div GramsPerTon
    ELSE baseline_co2_g[<<s, y>>] \div GramsPerTon

total_opt_co2_t ==
    SetSum([k \in ships \X YEARS_FULL |-> OptCo2(k[1], k[2])], ships \X YEARS_FULL)

(* the four returned tables; the relative saving divides by obj_base, which is
   positive on every input drawn here (maintenance is never 0) *)
Tables ==
    LET obj_opt  == objective
        obj_base == SetSum(pv_base, ships)
    IN  [kind      |-> "tables",
         comp      |-> [Optimiert |-> obj_opt, DieselOnly |-> obj_base],
         savings   |-> [absolut |-> obj_base - obj_opt,
                        relativ |-> IF obj_base # 0
                                    THEN ((obj_base - obj_opt) * 100) \div obj_base
                                    ELSE 0],
         summary   |-> Summary,
         emissions |-> [Optimiert |-> total_opt_co2_t, DieselOnly |-> total_baseline_co2_t]]

----------------------------------------------------------------------------
(* Inputs *)

Fleet(k) ==
    [s \in 1..k |-> IF s = 1
                    THEN [Voyages |-> 2, Power |-> 1, Energy_per_km |-> 2]
                    ELSE [Voyages |-> 1, Power |-> 2, Energy_per_km |-> 0]]

NewSpecs(k) ==
    [s \in 1..k |-> IF s = 1 THEN [MJ_new |-> 2, P_new |-> 1]
                             ELSE [MJ_new |-> 1, P_new |-> 1]]

(* route rows of ship 1; the other ships have none *)
RouteRows ==
    { <<>>,
      << [mj |-> 8, era |-> 0] >>,
      << [mj |-> 4, era |-> 50], [mj |-> 4, era |-> 0] >>,
      << [mj |-> 8, era |-> 100] >> }

Routes(rows) == [s \in (IF rows = <<>> THEN {} ELSE {1}) |-> rows]

(* rows of the retrofit table of ship 1, per decision year *)
TurboRows ==
    { [present |-> FALSE, cost |-> 0,   save |-> 0],
      [present |-> TRUE,  cost |-> 0,   save |-> 50],
      [present |-> TRUE,  cost |-> 600, save |-> 50] }

(* the other ships have a costly row in every decision year *)
TurboKeys(k, tr) == ({1} \X {y \in YEARS_DEC : tr[y].present}) \cup ((2..k) \X YEARS_DEC)

TurboCost(k, tr) == [x \in TurboKeys(k, tr) |-> IF x[1] = 1 THEN tr[x[2]].cost ELSE 600]
TurboSave(k, tr) == [x \in TurboKeys(k, tr) |-> IF x[1] = 1 THEN tr[x[2]].save ELSE 10]

(* newbuild capex rows of ship 1: the green fuels always have one per decision
   year, Lpg has them or has none *)
Capex(lpgRows) ==
    [k \in {1} \X (IF lpgRows THEN OtherFuels ELSE OtherFuels \ {"Lpg"}) \X YEARS_DEC
        |-> 10000]

Quote(f, lpgPrice) ==
    CASE f = BASIC            -> [Energy_MJ_per_kg |-> 2, Price_USD_per_kg |-> 4,
                                  CO2_g_per_MJ |-> 2000000, Maintenance_USD_per_kW |-> 8]
      [] f = HFO              -> [Energy_MJ_per_kg |-> 2, Price_USD_per_kg |-> 2,
                                  CO2_g_per_MJ |-> 3000000, Maintenance_USD_per_kW |-> 4]
      [] f = "Lpg"            -> [Energy_MJ_per_kg |-> 2, Price_USD_per_kg |-> lpgPrice,
                                  CO2_g_per_MJ |-> 2000000, Maintenance_USD_per_kW |-> 4]
      [] f = "Green Methanol" -> [Energy_MJ_per_kg |-> 1, Price_USD_per_kg |-> 5,
                                  CO2_g_per_MJ |-> 0, Maintenance_USD_per_kW |-> 6]
      [] f = "Green Ammonia"  -> [Energy_MJ_per_kg |-> 1, Price_USD_per_kg |-> 6,
                                  CO2_g_per_MJ |-> 0, Maintenance_USD_per_kW |-> 8]

FuelTable(lpgPrice) ==
    [k \in YEARS_FULL \X ({BASIC, HFO} \cup OtherFuels) |-> Quote(k[2], lpgPrice)]

Unset == [kind |-> "unset"]

InitWith(k, rows, tr, lpgRows, co2, price, lpgPrice) ==
    /\ pc = "loaded"
    /\ fleet = Fleet(k)
    /\ new_lu = NewSpecs(k)
    /\ routes_df = Routes(rows)
    /\ T_COST = TurboCost(k, tr)
    /\ T_SAVE = TurboSave(k, tr)
    /\ N_COST = Capex(lpgRows)
    /\ fuel_lu = FuelTable(lpgPrice)
    /\ co2_prices = Expand([y \in YE_REF |-> co2])
    /\ diesel_prices = Expand([y \in YE_REF |-> price[1]])
    /\ hfo_prices = Expand([y \in YE_REF |-> price[2]])
    /\ energy_groups = Unset
    /\ baseline_cost = Unset /\ retro_cost = Unset /\ new_cost_op = Unset
    /\ baseline_co2_g = Unset /\ retro_co2_g = Unset /\ new_co2_g = Unset
    /\ pv_base = Unset /\ delta_retro = Unset /\ delta_new = Unset
    /\ t = Unset /\ n = Unset
    /\ feasible = FALSE
    /\ status = LpStatusNotSolved
    /\ objective = NoValue
    /\ result = NoResult
    /\ err = NoError

Init ==
    \E k \in 1..NumShips, rows \in RouteRows, tr \in [YEARS_DEC -> TurboRows],
       lpgRows \in BOOLEAN, co2 \in {0, 1},
       price \in {<<4, 4>>, <<4, 2>>}, lpgPrice \in {1, 3} :
        InitWith(k, rows, tr, lpgRows, co2, price, lpgPrice)

----------------------------------------------------------------------------
(* Steps of run_fleet_optimization *)

(* section 4 *)
Aggregate ==
    /\ pc = "loaded"
    /\ energy_groups' = [s \in DOMAIN routes_df |-> Group(routes_df[s])]
    /\ pc' = "grouped"
    /\ UNCHANGED <<inputs, costs, deltas, t, n, feasible, status, objective, result, err>>

(* section 6 *)
BuildCosts ==
    /\ pc = "grouped"
    /\ baseline_cost'  = [k \in ships \X YEARS_FULL |-> BaselineCost(k[1], k[2])]
    /\ baseline_co2_g' = [k \in ships \X YEARS_FULL |-> co2g(k[1], k[2])]
    /\ retro_cost'     = [k \in ships \X YEARS_FULL |-> RetroCost(k[1], k[2])]
    /\ retro_co2_g'    = [k \in ships \X YEARS_FULL |-> co2g_r(k[1], k[2])]
    /\ new_cost_op'    = [k \in ships \X YEARS_FULL \X OtherFuels |-> NewCost(k[1], k[2], k[3])]
    /\ new_co2_g'      = [k \in ships \X YEARS_FULL \X OtherFuels |-> co2g_n(k[1], k[2], k[3])]
    /\ pc' = "costed"
    /\ UNCHANGED <<inputs, energy_groups, deltas, t, n, feasible, status, objective, result, err>>

(* section 7 *)
BuildDeltas ==
    /\ pc = "costed"
    /\ pv_base'     = [s \in ships |-> PvBase(s)]
    /\ delta_retro' = [k \in ships \X YEARS_DEC |-> DeltaRetro(k[1], k[2])]
    /\ delta_new'   = [k \in ships \X YEARS_DEC \X OtherFuels |-> DeltaNew(k[1], k[2], k[3])]
    /\ pc' = "deltas"
    /\ UNCHANGED <<inputs, energy_groups, costs, t, n, feasible, status, objective, result, err>>

(* section 8 up to the objective: the binaries exist, without values *)
BuildModel ==
    /\ pc = "deltas"
    /\ t' = [k \in TKeys |-> NoValue]
    /\ n' = [k \in NKeys |-> NoValue]
    /\ pc' = "model"
    /\ UNCHANGED <<inputs, energy_groups, costs, deltas, feasible, status, objective, result, err>>

(* mdl.solve(): the solver reports a status; with status Optimal the binaries
   hold an optimal point and the objective its value *)
Solve ==
    /\ pc = "model"
    /\ \E st \in LpStatuses :
         /\ status' = st
         /\ IF st = LpStatusOptimal
            THEN \E sol \in Solutions(ships) :
                   /\ t' = [k \in TKeys |-> sol[k[1]][1][k[2]]]
                   /\ n' = [k \in NKeys |-> sol[k[1]][2][<<k[2], k[3]>>]]
                   /\ objective' = Objective(t', n')
                   /\ feasible' = Constraints(t', n')
            ELSE UNCHANGED <<t, n, objective, feasible>>
    /\ pc' = "solved"
    /\ UNCHANGED <<inputs, energy_groups, costs, deltas, result, err>>

(* only the negative statuses taken as failures *)
NotOptimalNegative(st) == st < 0

NotOptimal(st) == st # LpStatusOptimal

(* raise RuntimeError(f"Modell nicht optimal (Status {mdl.status})") *)
Raise ==
    /\ pc = "solved"
    /\ NotOptimal(status)
    /\ err' = status
    /\ pc' = "raised"
    /\ UNCHANGED <<inputs, energy_groups, costs, deltas, t, n, feasible, status, objective, result>>

(* sections 9 and 10, and the return *)
Report ==
    /\ pc = "solved"
    /\ ~NotOptimal(status)
    /\ result' = Tables
    /\ pc' = "done"
    /\ UNCHANGED <<inputs, energy_groups, costs, deltas, t, n, feasible, status, objective, err>>

Next == Aggregate \/ BuildCosts \/ BuildDeltas \/ BuildModel \/ Solve \/ Raise \/ Report

Spec == Init /\ [][Next]_vars

----------------------------------------------------------------------------
(* The MILP on its own: every 0/1 point of a one-ship model, with the constraint
   rows and the objective evaluated on it *)

InitPoint ==
    \E tr \in [YEARS_DEC -> TurboRows] :
        InitWith(1, << [mj |-> 4, era |-> 50], [mj |-> 4, era |-> 0] >>, tr, TRUE, 1, <<4, 2>>, 1)

Point ==
    /\ pc = "model"
    /\ \E tv \in [TKeys -> {0, 1}], nv \in [NKeys -> {0, 1}] :
         /\ t' = tv
         /\ n' = nv
         /\ feasible' = Constraints(tv, nv)
         /\ objective' = Objective(tv, nv)
    /\ pc' = "point"
    /\ UNCHANGED <<inputs, energy_groups, costs, deltas, status, result, err>>

NextPoint == Aggregate \/ BuildCosts \/ BuildDeltas \/ BuildModel \/ Point

SpecPoint == InitPoint /\ [][NextPoint]_vars

----------------------------------------------------------------------------
(* Properties *)

Costed == pc \notin {"loaded", "grouped"}
Priced == Costed /\ pc # "costed"
Built  == Priced /\ pc # "deltas"

Selected(s)    == {y \in YEARS_DEC : t[<<s, y>>] = 1}
SelectedNew(s) == {k \in YEARS_DEC \X OtherFuels : n[<<s, k[1], k[2]>>] = 1}

(* C1: in every point that satisfies the constraint rows, every ship has at most
   one retrofit year, at most one newbuild year and fuel, and no retrofit in or
   after the year of a selected newbuild. *)
C1_MutualExclusivity ==
    (pc = "point" /\ feasible) =>
        \A s \in ships :
            /\ Cardinality(Selected(s)) <= 1
            /\ Cardinality(SelectedNew(s)) <= 1
            /\ ~ \E k \in SelectedNew(s), y \in Selected(s) : k[1] <= y

C1_Witness ==
    /\ pc = "point" /\ feasible
    /\ \E s \in ships : \E k \in SelectedNew(s), y \in Selected(s) : y < k[1]

(* the cost of the regime ship s is in during year y under the point t, n *)
RegimeCost(s, y) ==
    IF New_Year(s) # NoYear /\ y >= New_Year(s) THEN new_cost_op[<<s, y, Fuel(s)>>]
    ELSE IF Turbo_Year(s) # NoYear /\ y >= Turbo_Year(s) THEN retro_cost[<<s, y>>]
    ELSE baseline_cost[<<s, y>>]

LifecycleNPV ==
    SetSum([k \in ships \X YEARS_FULL |-> RegimeCost(k[1], k[2])], ships \X YEARS_FULL)

(* C2: in every point that satisfies the constraint rows, the objective value is
   the lifecycle NPV of the decision: per ship and year the discounted cost of
   the regime active in that year. *)
C2_ObjectiveIsLifecycleNPV ==
    (pc = "point" /\ feasible) => objective = LifecycleNPV

(* C3: a retrofit row with a positive saving and no capital cost has a delta <= 0,
   whatever the rows of the other years are. *)
C3_FreeSavingNeverWorse ==
    Priced =>
        \A s \in ships, y0 \in YEARS_DEC :
            (Get(T_SAVE, <<s, y0>>, 0) > 0 /\ Get(T_COST, <<s, y0>>, 0) = 0)
                => delta_retro[<<s, y0>>] <= 0

(* C4: a ship with ECA share 0 (a ship without route rows included) has a
   baseline cost without any Diesel term: no ECA fuel cost, and CO2 and
   maintenance at the Hfo emission factor and maintenance rate. *)
C4_ZeroShareIsPureHfo ==
    Costed =>
        \A s \in ships, y \in YEARS_FULL :
            grp(s).share = 0 =>
                /\ cost_eca(s, y) = 0
                /\ baseline_co2_g[<<s, y>>]
                     = grp(s).MJ_v * fleet[s].Voyages * Q(y, HFO).CO2_g_per_MJ
                /\ baseline_cost[<<s, y>>]
                     = ( cost_noeca(s, y)
                         + (baseline_co2_g[<<s, y>>] \div GramsPerTon) * co2_prices[y]
                         + fleet[s].Power * Q(y, HFO).Maintenance_USD_per_kW ) * dfac(y)

(* C5: after a status other than Optimal the run ends in the error carrying that
   status, with no result tables and no further step; result tables exist only
   with status Optimal. *)
C5_NonOptimalIsFatal ==
    /\ [][ /\ pc # "raised"
           /\ (pc = "solved" /\ status # LpStatusOptimal)
                => (pc' = "raised" /\ err' = status /\ result' = NoResult) ]_vars
    /\ [](result # NoResult => (status = LpStatusOptimal /\ err = NoError))

C5_Witness == pc = "raised" /\ err = 0 - 1 /\ status = 0 - 1 /\ result = NoResult

TheShip == CHOOSE s \in ships : TRUE

FuelCost(s, y) == (cost_eca(s, y) + cost_noeca(s, y)) * dfac(y)

(* C6: one ship with route energy, a free retrofit row with saving p > 0 in the
   first decision year, CO2 price 0 and prohibitive newbuild capex: the run
   selects the retrofit of the first year and no newbuild, and the optimized NPV
   is the baseline NPV less p percent of the discounted baseline fuel cost of
   every year of the horizon. *)
C6_RetrofitScenario ==
    ( /\ pc = "done"
      /\ Cardinality(ships) = 1
      /\ grp(TheShip).MJ_v > 0
      /\ Get(T_SAVE, <<TheShip, BaseYear>>, 0) > 0
      /\ Get(T_COST, <<TheShip, BaseYear>>, 0) = 0
      /\ \A y \in YEARS_FULL : co2_prices[y] = 0
      /\ \A f \in OtherFuels, y \in YEARS_DEC : Get(N_COST, <<TheShip, f, y>>, 0) >= 10000 )
    =>
    ( /\ result.summary[TheShip].Turbo_Year = BaseYear
      /\ result.summary[TheShip].New_Year = NoYear
      /\ 100 * (result.comp.DieselOnly - result.comp.Optimiert)
            = Get(T_SAVE, <<TheShip, BaseYear>>, 0)
              * SetSum([y \in YEARS_FULL |-> FuelCost(TheShip, y)], YEARS_FULL) )

(* C7: one ship with route energy and no retrofit rows, and a fuel f without
   capex rows that is cheaper than Diesel in every year (here also cheaper per
   MJ than Hfo, at an unchanged energy intensity, with no CO2 price and no
   higher maintenance): the run selects the newbuild with f in the first
   decision year. *)
C7_NewbuildScenario ==
    \A f \in OtherFuels :
        ( /\ pc = "done"
          /\ Cardinality(ships) = 1
          /\ grp(TheShip).MJ_v > 0
          /\ factor(TheShip) = 100
          /\ \A y \in YEARS_FULL : <<TheShip, y>> \notin DOMAIN T_SAVE
          /\ \A y \in YEARS_FULL :
               /\ <<TheShip, f, y>> \notin DOMAIN N_COST
               /\ Q(y, f).Price_USD_per_kg < diesel_prices[y]
               /\ Q(y, f).Price_USD_per_kg * Q(y, HFO).Energy_MJ_per_kg
                    < hfo_prices[y] * Q(y, f).Energy_MJ_per_kg
               /\ Q(y, f).Energy_MJ_per_kg = Q(y, BASIC).Energy_MJ_per_kg
               /\ co2_prices[y] = 0
               /\ ma_n(TheShip, y, f) <= ma(TheShip, y) )
        =>
        ( /\ result.summary[TheShip].New_Year = BaseYear
          /\ result.summary[TheShip].Fuel = f )

(* C8: the capital cost inside retrofit_delta[s,y0] is the discounted capital
   cost of the row of year y0, once, and likewise for newbuild_delta[s,y0,f];
   rows of later years add nothing. *)
C8_CapexOnce ==
    Priced =>
        \A s \in ships, y0 \in YEARS_DEC :
            /\ delta_retro[<<s, y0>>]
                 - SetSum([y \in From(y0) |-> RetroOp(s, y) - baseline_cost[<<s, y>>]], From(y0))
               = Get(T_COST, <<s, y0>>, 0) * dfac(y0)
            /\ \A f \in OtherFuels :
                 delta_new[<<s, y0, f>>]
                   - SetSum([y \in From(y0) |-> NewOp(s, y, f) - baseline_cost[<<s, y>>]], From(y0))
                 = Get(N_COST, <<s, f, y0>>, 0) * dfac(y0)

(* factor x (annual ECA energy + annual non-ECA energy) *)
NewbuildEnergy(s) ==
    ((grp(s).MJ_e * fleet[s].Voyages + grp(s).MJ_n * fleet[s].Voyages) * factor(s)) \div 100

(* C9: the newbuild fuel cost and CO2 quantity of fuel f are computed on
   factor x (annual ECA energy + annual non-ECA energy), each unit of energy
   once, at the rates of f. *)
C9_NewbuildEnergyOnce ==
    Costed =>
        \A s \in ships, y \in YEARS_FULL, f \in OtherFuels :
            /\ new_co2_g[<<s, y, f>>] = NewbuildEnergy(s) * Q(y, f).CO2_g_per_MJ
            /\ cost_eca_n(s, y, f) + cost_noeca_n(s, y, f)
                 = (NewbuildEnergy(s) \div Q(y, f).Energy_MJ_per_kg) * Q(y, f).Price_USD_per_kg

ZeroT == [k \in TKeys |-> 0]
ZeroN == [k \in NKeys |-> 0]

(* C10: the all-zero decision satisfies every constraint row and its objective
   value is the fleet baseline NPV; every run that returns reports an optimized
   NPV <= the baseline NPV, so absolute savings >= 0. *)
C10_BaselineIsFeasible ==
    /\ Built => ( /\ Constraints(ZeroT, ZeroN)
                  /\ Objective(ZeroT, ZeroN) = SetSum(pv_base, ships) )
    /\ pc = "done" => ( /\ result.comp.Optimiert <= result.comp.DieselOnly
                        /\ result.savings.absolut >= 0 )

C10_Witness == pc = "done" /\ result.savings.absolut > 0 /\ Cardinality(ships) > 1

============================================================================
